---- MODULE Spec2Model ----
(***************************************************************************)
(* wayes: a wrapper around net/http.ServeMux with route groups, ordered    *)
(* middleware, a per-request context and response helpers.                 *)
(*                                                                         *)
(* The router (wayes.go) is held in src/README.md lines 173-339, the       *)
(* context (ctx.go) in src/wayes_test.go lines 719-955.  The response sink *)
(* is the recorder the tests pass to ServeHTTP: the first WriteHeader      *)
(* fixes the status, a Write before any WriteHeader implies status 200,    *)
(* and the body is the sequence of chunks written.                         *)
(*                                                                         *)
(* A path is the sequence of its segments: "/a/b" is <<"a","b">>, "/" is   *)
(* <<>>.  Patterns are the ones the router itself builds: "<METHOD> <path>"*)
(* for a route, "<prefix>/" for a group and "/" for a combined table.      *)
(***************************************************************************)
EXTENDS Integers, Sequences, FiniteSets, TLC

VARIABLES
    rts,      \* the routers created so far, in creation order (wayes structs)
    crashed,  \* TRUE once a registration panicked (ServeMux conflict)
    panicked, \* the registration call that panicked, "none" while none did
    nsetup,   \* number of registration calls made so far
    pc,       \* position of the request in flight: idle, mw, handler, done
    req,      \* the inbound request: entry router, method, path, body
    cur,      \* what the pattern tables resolved the request to
    idx,      \* index of the middleware being run (position of the range loop)
    ctx,      \* the ctx struct of the request in flight
    resp,     \* the response sink
    mwcalls,  \* middleware invoked for this request, in invocation order
    hcalls,   \* terminal handlers invoked for this request
    nops,     \* context calls made by the running middleware/handler
    last,     \* the most recent context call of the running function and its result
    fail,     \* how the request failed, if a function returned an error
    parked    \* a second request in flight while its goroutine is not running

vars == <<rts, crashed, panicked, nsetup, pc, req, cur, idx, ctx, resp, mwcalls, hcalls, nops, last, fail,
          parked>>

setupVars == <<rts, crashed, panicked, nsetup>>
reqVars == <<pc, req, cur, idx, ctx, resp, mwcalls, hcalls, nops, last, fail>>

----
\* Bounds of the model.

MaxRouters == 3
MaxSetup == 4
MaxSetupMount == 3
MaxSetupCtx == 2
MaxUse == 2
MaxCombine == 2
MaxOps == 2
MaxPathLen == 3
MaxLocals == 3
MaxNested == 2
MaxSetupDeep == 6

\* Program constants (net/http status codes).
StatusOK == 200
StatusNoContent == 204
StatusBadRequest == 400
StatusForbidden == 403
StatusInternalServerError == 500

\* Input domains.
Methods == {"GET", "POST"}
ReqMethods == Methods \cup {"HEAD"}
MW == {"m1", "m2"}
RoutePaths == {<<"b">>, <<"a", "b">>}
Prefixes == {<<"a">>, <<"a", "a">>}
ReqPaths == {<<>>, <<"a">>, <<"b">>, <<"a", "b">>, <<"a", "a", "b">>}
CtxMethods == {"HEAD", "GET", "OPTIONS", "POST", "PATCH", "PUT", "DELETE"}
CtxPaths == {<<"b">>}
Bodies == {"empty", "blank", "valid", "malformed", "truncated", "mismatch"}
Errs == {"boom"}
Codes == {StatusForbidden, StatusNoContent}
Msgs == {"hello"}
WriteMsgs == {"", "hello"}
UserKeys == {"test", "Test", "Content-Type"}
HeaderVals == {"", "v1", "v2"}
Defaults == {<<>>, <<"dflt">>}
LocalKeys == {<<"string", "id">>, <<"int", "1">>, <<"ctxKey", "id">>}
LocalVals == {<<"string", "v1">>, <<"int", "2">>}
NilValue == <<"nil", "nil">>
WriteCodes == {StatusNoContent, StatusForbidden, StatusInternalServerError}

Nil == "nil"
NoPath == <<>>

SeqsUpTo(S, n) == UNION {[1..k -> S] : k \in 1..n}

IsPrefix(s, t) == Len(s) <= Len(t) /\ SubSeq(t, 1, Len(s)) = s

Routers == 1..Len(rts)

\* The routers made by New: the ones whose table is handed to the transport
\* (http.ListenAndServe(addr, router.Mux())).
Roots == {r \in Routers : rts[r].parent = 0}

----
\* net/http collaborators.

HeaderKeys == {"Content-Type", "X-Content-Type-Options", "Allow", "Location", "Test"}

NoHeader == [k \in HeaderKeys |-> ""]

\* The header of an inbound request: the client's own values for the keys a
\* handler may ask for.
InboundHeader == [k \in HeaderKeys |-> IF k \in {"Content-Type", "Test"} THEN "inbound" ELSE ""]

\* http.Header.Get and Set address a key by its canonical form.
CanonicalKey(k) == IF k = "test" THEN "Test" ELSE k

NewRecorder ==
    [wroteHeader |-> FALSE, code |-> 0, header |-> NoHeader, sent |-> NoHeader, body |-> <<>>]

WriteHeader_Overwrite(w, code) ==
    [w EXCEPT !.wroteHeader = TRUE, !.code = code, !.sent = w.header]

\* ResponseWriter.WriteHeader: the first call fixes the status and the headers sent.
WriteHeader(w, code) ==
    IF w.wroteHeader THEN w
    ELSE [w EXCEPT !.wroteHeader = TRUE, !.code = code, !.sent = w.header]

WriteBody_Replace(w, chunks) ==
    LET w1 == WriteHeader(w, StatusOK)
    IN [w1 EXCEPT !.body = chunks]

\* ResponseWriter.Write: implies WriteHeader(200) when none was made.
WriteBody(w, chunks) ==
    LET w1 == WriteHeader(w, StatusOK)
    IN [w1 EXCEPT !.body = @ \o chunks]

SetHeader(w, k, v) == [w EXCEPT !.header[k] = v]

HttpError_StatusOnly(w, msg, code) == WriteHeader(w, code)

HttpError_NoType(w, msg, code) == WriteBody(WriteHeader(w, code), <<msg, "\n">>)

\* http.Error: text/plain content type, nosniff, WriteHeader(code), Fprintln(error).
HttpError(w, msg, code) ==
    LET w1 == SetHeader(SetHeader(w, "Content-Type", "text/plain; charset=utf-8"),
                        "X-Content-Type-Options", "nosniff")
    IN WriteBody(WriteHeader(w1, code), <<msg, "\n">>)

StripPrefix_Keep(p, n) == p

\* http.StripPrefix over segment sequences.
StripPrefix(p, n) == SubSeq(p, n + 1, Len(p))

MountsMatching_RootExact(r, p) ==
    {mt \in rts[r].mounts :
        /\ IsPrefix(mt.prefix, p)
        /\ (IF mt.prefix = <<>> THEN p = <<>> ELSE Len(p) > Len(mt.prefix))}

\* The mounts of router r whose subtree pattern "<prefix>/" matches path p.
MountsMatching(r, p) ==
    {mt \in rts[r].mounts :
        /\ IsPrefix(mt.prefix, p)
        /\ (Len(p) > Len(mt.prefix) \/ mt.prefix = <<>>)}

\* ServeMux.ServeHTTP of router r's table: method-specific patterns first (GET also
\* serves HEAD), then the redirect to "<path>/", then the longest method-less
\* subtree pattern, which delegates to the mounted table.
RECURSIVE ServeMux(_, _, _, _)
ServeMux(r, m, p, fuel) ==
    IF fuel = 0
    THEN [kind |-> "overflow", rt |-> r, method |-> m, path |-> p]
    ELSE IF <<m, p>> \in rts[r].routes
    THEN [kind |-> "route", rt |-> r, method |-> m, path |-> p]
    ELSE IF m = "HEAD" /\ <<"GET", p>> \in rts[r].routes
    THEN [kind |-> "route", rt |-> r, method |-> "GET", path |-> p]
    ELSE IF p # <<>> /\ \E mt \in rts[r].mounts : mt.prefix = p
    THEN [kind |-> "redirect", rt |-> r, method |-> m, path |-> p]
    ELSE IF MountsMatching(r, p) # {}
    THEN LET mt == CHOOSE x \in MountsMatching(r, p) :
                       \A y \in MountsMatching(r, p) : Len(y.prefix) <= Len(x.prefix)
         IN ServeMux(mt.to, m, IF mt.strip THEN StripPrefix(p, Len(mt.prefix)) ELSE p, fuel - 1)
    ELSE IF \E k \in rts[r].routes : k[2] = p
    THEN [kind |-> "notallowed", rt |-> r, method |-> m, path |-> p]
    ELSE [kind |-> "notfound", rt |-> r, method |-> m, path |-> p]

\* Delegation depth after which a cycle of combined tables is certain: a
\* delegation that ends visits no (table, path) pair twice.
Fuel == MaxRouters * (MaxPathLen + 1) + 1

Resolve(r, m, p) == ServeMux(r, m, p, Fuel)

----
\* Router (wayes.go).

\* New: a router with no middleware and an empty table.  Three fields record the
\* router's origin: parent is the router Group was called on (0 for New),
\* inherited the parent's middleware list at that call, own the handlers passed
\* to the router's own Use calls since.
NewRouter(v) ==
    [validator |-> v, middlewares |-> <<>>, routes |-> {}, mounts |-> {},
     inherited |-> <<>>, own |-> <<>>, parent |-> 0]

\* Use applied to a middleware list: appends the handlers in call order.
Appended(mws, hs) == mws \o hs

\* The request of the running goroutine as one value.
InFlight ==
    [pc |-> pc, req |-> req, cur |-> cur, idx |-> idx, ctx |-> ctx, resp |-> resp,
     mwcalls |-> mwcalls, hcalls |-> hcalls, nops |-> nops, last |-> last, fail |-> fail]

Init ==
    /\ parked = [pc |-> "idle",
                 req |-> [rt |-> 0, method |-> "", path |-> NoPath, body |-> "empty",
                          header |-> NoHeader],
                 cur |-> [kind |-> "none", rt |-> 0, method |-> "", path |-> NoPath],
                 idx |-> 0,
                 ctx |-> [status |-> 0, validator |-> FALSE, statusSet |-> FALSE, locals |-> <<>>],
                 resp |-> NewRecorder, mwcalls |-> <<>>, hcalls |-> <<>>, nops |-> 0,
                 last |-> [op |-> "none", ret |-> Nil, fresh |-> FALSE, body |-> "none",
                           data |-> "none", validated |-> FALSE, arg |-> <<>>],
                 fail |-> [by |-> "none", msg |-> Nil, via |-> "none", status |-> 0,
                           statusSet |-> FALSE, wrote |-> FALSE, fresh |-> FALSE]]
    /\ rts = <<>>
    /\ crashed = FALSE
    /\ panicked = "none"
    /\ nsetup = 0
    /\ pc = "idle"
    /\ req = [rt |-> 0, method |-> "", path |-> NoPath, body |-> "empty", header |-> NoHeader]
    /\ cur = [kind |-> "none", rt |-> 0, method |-> "", path |-> NoPath]
    /\ idx = 0
    /\ ctx = [status |-> 0, validator |-> FALSE, statusSet |-> FALSE, locals |-> <<>>]
    /\ resp = NewRecorder
    /\ mwcalls = <<>>
    /\ hcalls = <<>>
    /\ nops = 0
    /\ last = [op |-> "none", ret |-> Nil, fresh |-> FALSE, body |-> "none", data |-> "none",
           validated |-> FALSE, arg |-> <<>>]
    /\ fail = [by |-> "none", msg |-> Nil, via |-> "none", status |-> 0,
               statusSet |-> FALSE, wrote |-> FALSE, fresh |-> FALSE]

CanSetup == ~crashed /\ pc = "idle"

\* wayes.New
New(v) ==
    /\ CanSetup
    /\ Len(rts) < MaxRouters
    /\ rts' = Append(rts, NewRouter(v))
    /\ UNCHANGED <<crashed, panicked, nsetup>>
    /\ UNCHANGED <<reqVars, parked>>

AfterUse_Captured(r, hs) ==
    [rts EXCEPT ![r].middlewares = IF rts[r].routes # {} THEN @ ELSE Appended(@, hs),
                ![r].own = @ \o hs]

AfterUse_Shared(r, hs) ==
    [x \in DOMAIN rts |->
        IF x = r THEN [rts[x] EXCEPT !.middlewares = Appended(@, hs), !.own = @ \o hs]
        ELSE IF x = rts[r].parent THEN [rts[x] EXCEPT !.middlewares = Appended(@, hs)]
        ELSE rts[x]]

AfterUse_Live(r, hs) ==
    [x \in DOMAIN rts |->
        IF x = r \/ rts[x].parent = r
        THEN [rts[x] EXCEPT !.middlewares = Appended(@, hs)]
        ELSE rts[x]]

\* The routers after r.Use(hs...): only r's list changes.
AfterUse(r, hs) ==
    [rts EXCEPT ![r].middlewares = Appended(@, hs), ![r].own = @ \o hs]

\* wayes.Use
Use(r, hs) ==
    /\ CanSetup
    /\ r \in Routers
    /\ rts' = AfterUse(r, hs)
    /\ nsetup' = nsetup + 1
    /\ UNCHANGED <<crashed, panicked>>
    /\ UNCHANGED <<reqVars, parked>>

\* wayes.Get, Post, ...: mux.HandleFunc("<METHOD> <path>", ...); a pattern
\* registered twice panics.
Handle(r, m, p) ==
    /\ CanSetup
    /\ r \in Routers
    /\ nsetup' = nsetup + 1
    /\ IF <<m, p>> \in rts[r].routes
       THEN crashed' = TRUE /\ panicked' = "Handle" /\ UNCHANGED rts
       ELSE /\ rts' = [rts EXCEPT ![r].routes = @ \cup {<<m, p>>}]
            /\ UNCHANGED <<crashed, panicked>>
    /\ UNCHANGED <<reqVars, parked>>

GroupMiddlewares_RootOnly(r) ==
    IF rts[r].parent # 0 THEN rts[r].inherited ELSE Appended(<<>>, rts[r].middlewares)

GroupMiddlewares_Empty(r) == <<>>

\* The middleware list a new group starts with: group.Use(rt.middlewares...).
GroupMiddlewares(r) == Appended(<<>>, rts[r].middlewares)

\* wayes.Group: a new router with the validator and a copy of the middleware,
\* mounted at "<path>/" behind http.StripPrefix(path).
Group(r, P) ==
    /\ CanSetup
    /\ r \in Routers
    /\ Len(rts) < MaxRouters
    /\ nsetup' = nsetup + 1
    /\ LET g == Len(rts) + 1
           group == [NewRouter(rts[r].validator) EXCEPT
                        !.middlewares = GroupMiddlewares(r),
                        !.inherited = rts[r].middlewares,
                        !.parent = r]
       IN IF \E mt \in rts[r].mounts : mt.prefix = P
          THEN crashed' = TRUE /\ panicked' = "Group" /\ rts' = Append(rts, group)
          ELSE /\ rts' = Append([rts EXCEPT ![r].mounts =
                                    @ \cup {[prefix |-> P, to |-> g, strip |-> TRUE]}],
                                group)
               /\ UNCHANGED <<crashed, panicked>>
    /\ UNCHANGED <<reqVars, parked>>

\* The table of r after mux.Handle("/", router) for each router of os in turn;
\* "crash" when a "/" pattern is already registered.
RECURSIVE CombineMounts(_, _)
CombineMounts(mounts, os) ==
    IF os = <<>> THEN [ok |-> TRUE, mounts |-> mounts]
    ELSE IF \E mt \in mounts : mt.prefix = <<>>
    THEN [ok |-> FALSE, mounts |-> mounts]
    ELSE CombineMounts(mounts \cup {[prefix |-> <<>>, to |-> Head(os), strip |-> FALSE]},
                       Tail(os))

Combine_Wrapping(r, os) ==
    /\ CanSetup
    /\ r \in Routers
    /\ \A i \in 1..Len(os) : os[i] \in Routers
    /\ nsetup' = nsetup + 1
    /\ LET res == CombineMounts(rts[r].mounts, os)
           wrapped == {os[i] : i \in 1..Len(os)} \ {r}
       IN /\ rts' = [x \in DOMAIN rts |->
                       IF x = r THEN [rts[x] EXCEPT !.mounts = res.mounts]
                       ELSE IF x \in wrapped
                       THEN [rts[x] EXCEPT !.middlewares = rts[r].middlewares \o @]
                       ELSE rts[x]]
          /\ crashed' = ~res.ok
          /\ panicked' = IF res.ok THEN panicked ELSE "Combine"
    /\ UNCHANGED <<reqVars, parked>>

\* wayes.Combine
Combine(r, os) ==
    /\ CanSetup
    /\ r \in Routers
    /\ \A i \in 1..Len(os) : os[i] \in Routers
    /\ nsetup' = nsetup + 1
    /\ LET res == CombineMounts(rts[r].mounts, os)
       IN /\ rts' = [rts EXCEPT ![r].mounts = res.mounts]
          /\ crashed' = ~res.ok
          /\ panicked' = IF res.ok THEN panicked ELSE "Combine"
    /\ UNCHANGED <<reqVars, parked>>

----
\* Dispatch (wayes.handler) and the context (ctx.go).

\* NewCtx; locals is the chain of values attached to the request's context,
\* oldest first, empty for the request the transport hands in.
NewCtx(v) == [status |-> StatusOK, validator |-> v, statusSet |-> FALSE, locals |-> <<>>]

\* The latest context call of the running function: its name, the error it
\* returned, whether it wrote the status line (fresh), the request body it read
\* (body), the decode target it left (data), "none" where it has none, and
\* whether it called validator.Struct (validated), and its arguments (arg).
NoCall == [op |-> "none", ret |-> Nil, fresh |-> FALSE, body |-> "none", data |-> "none",
           validated |-> FALSE, arg |-> <<>>]

\* Record of a failed request: which stage returned the error (by), its message,
\* the context call whose result it was (via), the stored status at that moment,
\* whether Status or a failed Decode/Validate had set it (statusSet), whether the
\* status line was already written (wrote), and whether the returned call was
\* the one that wrote it (fresh).
NoFail == [by |-> "none", msg |-> Nil, via |-> "none", status |-> 0,
           statusSet |-> FALSE, wrote |-> FALSE, fresh |-> FALSE]

Aborts_Never(v) == FALSE

\* wayes.handler: an error ends the loop (if err != nil { http.Error; return }).
Aborts(v) == v # Nil

ErrorStatus_Stored(c) == c.status

\* The status wayes.handler passes to http.Error.
ErrorStatus(c) == StatusInternalServerError

Chain_WithParent(r) ==
    IF rts[r].parent # 0 THEN rts[rts[r].parent].middlewares \o rts[r].middlewares
    ELSE rts[r].middlewares

\* The middleware list the dispatch loop of router r ranges over.
Chain(r) == rts[r].middlewares

\* Response of the pattern table itself when no route matches.
MuxResponse(kind) ==
    IF kind = "notfound" THEN HttpError(NewRecorder, "404 page not found", 404)
    ELSE IF kind = "notallowed"
    THEN HttpError(SetHeader(NewRecorder, "Allow", "set"), "Method Not Allowed", 405)
    ELSE WriteHeader(SetHeader(NewRecorder, "Location", "set"), 301)

\* The route a resolution names, as recorded when its handler is invoked.
RouteOf(t) == [rt |-> t.rt, method |-> t.method, path |-> t.path]

NextStage_SkipLast(r, i) == IF i + 1 < Len(Chain(r)) THEN "mw" ELSE "handler"

\* Position of the dispatch loop of router r once i middleware have returned nil:
\* the next middleware of the list, or the terminal handler after the last one.
NextStage(r, i) == IF i < Len(Chain(r)) THEN "mw" ELSE "handler"

\* Mux().ServeHTTP(w, r): resolve the request; for a route, wayes.handler builds
\* the context and enters the first middleware, or the handler when there is none.
ServeHTTP(r, m, p, b) ==
    /\ ~crashed
    /\ pc = "idle"
    /\ r \in Routers
    /\ LET t == Resolve(r, m, p)
       IN /\ req' = [rt |-> r, method |-> m, path |-> p, body |-> b, header |-> InboundHeader]
          /\ cur' = t
          /\ nops' = 0
          /\ last' = NoCall
          /\ fail' = NoFail
          /\ resp' = IF t.kind \in {"route", "overflow"} THEN NewRecorder
                     ELSE MuxResponse(t.kind)
          /\ IF t.kind = "route"
             THEN /\ ctx' = NewCtx(rts[t.rt].validator)
                  /\ pc' = NextStage(t.rt, 0)
                  /\ idx' = IF NextStage(t.rt, 0) = "mw" THEN 1 ELSE 0
                  /\ mwcalls' = IF NextStage(t.rt, 0) = "mw" THEN <<Chain(t.rt)[1]>> ELSE <<>>
                  /\ hcalls' = IF NextStage(t.rt, 0) = "mw" THEN <<>> ELSE <<RouteOf(t)>>
             ELSE /\ pc' = IF t.kind = "overflow" THEN "crash" ELSE "done"
                  /\ idx' = 0
                  /\ ctx' = NewCtx(FALSE)
                  /\ mwcalls' = <<>>
                  /\ hcalls' = <<>>
    /\ UNCHANGED <<setupVars, parked>>

Running == pc \in {"mw", "handler"}

HandedOn_Fresh(c) == NewCtx(c.validator)

\* The context the dispatch loop passes to the next function: the one value made
\* by NewCtx at the start of the dispatch (middleware(context), handler(context)).
HandedOn(c) == c

Return_Retrying(v, via) ==
    /\ Running
    /\ nops' = 0
    /\ last' = NoCall
    /\ fail' = IF v = Nil THEN fail
               ELSE [by |-> pc, msg |-> v, via |-> via, status |-> ctx.status,
                     statusSet |-> ctx.statusSet, wrote |-> resp.wroteHeader,
                     fresh |-> last.fresh /\ via # "direct"]
    /\ resp' = IF v = Nil THEN resp ELSE HttpError(resp, v, ErrorStatus(ctx))
    /\ IF v # Nil /\ pc = "handler" /\ Len(hcalls) < 2
       THEN /\ pc' = "handler"
            /\ hcalls' = Append(hcalls, RouteOf(cur))
            /\ UNCHANGED <<idx, mwcalls>>
       ELSE IF Aborts(v) \/ pc = "handler"
       THEN /\ pc' = "done"
            /\ UNCHANGED <<idx, mwcalls, hcalls>>
       ELSE /\ pc' = NextStage(cur.rt, idx)
            /\ IF NextStage(cur.rt, idx) = "mw"
               THEN /\ idx' = idx + 1
                    /\ mwcalls' = Append(mwcalls, Chain(cur.rt)[idx + 1])
                    /\ hcalls' = hcalls
               ELSE /\ idx' = idx
                    /\ mwcalls' = mwcalls
                    /\ hcalls' = Append(hcalls, RouteOf(cur))
    /\ ctx' = HandedOn(ctx)
    /\ UNCHANGED <<req, cur>>
    /\ UNCHANGED <<setupVars, parked>>

Return_Clearing(v, via) ==
    /\ Running
    /\ nops' = 0
    /\ last' = NoCall
    /\ fail' = IF v = Nil THEN fail
               ELSE [by |-> pc, msg |-> v, via |-> via, status |-> ctx.status,
                     statusSet |-> ctx.statusSet, wrote |-> resp.wroteHeader,
                     fresh |-> last.fresh /\ via # "direct"]
    /\ resp' = IF v = Nil THEN resp ELSE HttpError(resp, v, ErrorStatus(ctx))
    /\ IF Aborts(v) \/ pc = "handler"
       THEN /\ pc' = "done"
            /\ rts' = [rts EXCEPT ![cur.rt].middlewares = <<>>]
            /\ UNCHANGED <<idx, mwcalls, hcalls>>
       ELSE /\ pc' = NextStage(cur.rt, idx)
            /\ rts' = rts
            /\ IF NextStage(cur.rt, idx) = "mw"
               THEN /\ idx' = idx + 1
                    /\ mwcalls' = Append(mwcalls, Chain(cur.rt)[idx + 1])
                    /\ hcalls' = hcalls
               ELSE /\ idx' = idx
                    /\ mwcalls' = mwcalls
                    /\ hcalls' = Append(hcalls, RouteOf(cur))
    /\ ctx' = HandedOn(ctx)
    /\ UNCHANGED <<req, cur>>
    /\ UNCHANGED <<crashed, panicked, nsetup, parked>>

\* A middleware or the terminal handler returns v (Nil for success).  via names
\* the context call whose result is returned, "direct" for a value of its own.
\* wayes.handler: after nil the loop goes on; after an error it answers with
\* http.Error(..., 500) and returns.
Return(v, via) ==
    /\ Running
    /\ nops' = 0
    /\ last' = NoCall
    /\ fail' = IF v = Nil THEN fail
               ELSE [by |-> pc, msg |-> v, via |-> via, status |-> ctx.status,
                     statusSet |-> ctx.statusSet, wrote |-> resp.wroteHeader,
                     fresh |-> last.fresh /\ via # "direct"]
    /\ resp' = IF v = Nil THEN resp ELSE HttpError(resp, v, ErrorStatus(ctx))
    /\ IF Aborts(v) \/ pc = "handler"
       THEN /\ pc' = "done"
            /\ UNCHANGED <<idx, mwcalls, hcalls>>
       ELSE /\ pc' = NextStage(cur.rt, idx)
            /\ IF NextStage(cur.rt, idx) = "mw"
               THEN /\ idx' = idx + 1
                    /\ mwcalls' = Append(mwcalls, Chain(cur.rt)[idx + 1])
                    /\ hcalls' = hcalls
               ELSE /\ idx' = idx
                    /\ mwcalls' = mwcalls
                    /\ hcalls' = Append(hcalls, RouteOf(cur))
    /\ ctx' = HandedOn(ctx)
    /\ UNCHANGED <<req, cur>>
    /\ UNCHANGED <<setupVars, parked>>

\* The function returns a value of its own: nil or a new error.
ReturnDirect(v) == Return(v, "direct")

\* The function returns what its last context call returned (return ctx.X(...)).
ReturnLast ==
    /\ last.op \in {"Write", "SendError", "Decode", "Validate", "SendStatus", "JSON", "Next"}
    /\ Return(last.ret, last.op)

\* The request is over: the transport drops the context and the response.
Finish ==
    /\ pc = "done"
    /\ pc' = "idle"
    /\ req' = [rt |-> 0, method |-> "", path |-> NoPath, body |-> "empty", header |-> NoHeader]
    /\ cur' = [kind |-> "none", rt |-> 0, method |-> "", path |-> NoPath]
    /\ idx' = 0
    /\ ctx' = [status |-> 0, validator |-> FALSE, statusSet |-> FALSE, locals |-> <<>>]
    /\ resp' = NewRecorder
    /\ mwcalls' = <<>>
    /\ hcalls' = <<>>
    /\ nops' = 0
    /\ last' = NoCall
    /\ fail' = NoFail
    /\ UNCHANGED <<setupVars, parked>>

\* net/http runs every request in a goroutine of its own: the scheduler leaves
\* the running dispatch where it is and goes on with the other one.
Switch ==
    /\ parked' = InFlight
    /\ pc' = parked.pc
    /\ req' = parked.req
    /\ cur' = parked.cur
    /\ idx' = parked.idx
    /\ ctx' = parked.ctx
    /\ resp' = parked.resp
    /\ mwcalls' = parked.mwcalls
    /\ hcalls' = parked.hcalls
    /\ nops' = parked.nops
    /\ last' = parked.last
    /\ fail' = parked.fail
    /\ UNCHANGED setupVars

CanCall == Running /\ nops < MaxOps

Status_Shared(code) ==
    /\ CanCall
    /\ ctx' = [ctx EXCEPT !.status = code, !.statusSet = TRUE]
    /\ parked' = [parked EXCEPT !.ctx.status = code]
    /\ nops' = nops + 1
    /\ last' = [NoCall EXCEPT !.op = "Status", !.arg = <<code>>]
    /\ UNCHANGED <<pc, req, cur, idx, resp, mwcalls, hcalls, fail>>
    /\ UNCHANGED setupVars

\* ctx.Status
Status(code) ==
    /\ CanCall
    /\ ctx' = [ctx EXCEPT !.status = code, !.statusSet = TRUE]
    /\ nops' = nops + 1
    /\ last' = [NoCall EXCEPT !.op = "Status", !.arg = <<code>>]
    /\ UNCHANGED <<pc, req, cur, idx, resp, mwcalls, hcalls, fail>>
    /\ UNCHANGED <<setupVars, parked>>

Written_AlwaysBody(w, status, msg) ==
    WriteBody(WriteHeader(SetHeader(w, "Content-Type", "text/plain; charset=utf-8"), status),
              <<msg>>)

Written_NoType(w, status, msg) ==
    IF status = StatusNoContent THEN WriteHeader(w, status)
    ELSE WriteBody(WriteHeader(w, status), <<msg>>)

\* The response after ctx.Write(message): content type, status line, and the
\* message unless the status is 204.
Written(w, status, msg) ==
    LET w1 == WriteHeader(SetHeader(w, "Content-Type", "text/plain; charset=utf-8"), status)
    IN IF status = StatusNoContent THEN w1 ELSE WriteBody(w1, <<msg>>)

\* ctx.Write
Write(msg) ==
    /\ CanCall
    /\ resp' = Written(resp, ctx.status, msg)
    /\ nops' = nops + 1
    /\ last' = [NoCall EXCEPT !.op = "Write", !.fresh = ~resp.wroteHeader, !.arg = <<msg>>]
    /\ UNCHANGED <<pc, req, cur, idx, ctx, mwcalls, hcalls, fail>>
    /\ UNCHANGED <<setupVars, parked>>

ErrorSent_NoHeader(w, status) == w

\* The response after ctx.SendError: the stored status as the status line.
ErrorSent(w, status) == WriteHeader(w, status)

SendError_WritesText(e) ==
    /\ CanCall
    /\ resp' = HttpError(resp, e, ctx.status)
    /\ nops' = nops + 1
    /\ last' = [NoCall EXCEPT !.op = "SendError", !.ret = e, !.fresh = ~resp.wroteHeader,
                             !.arg = <<e>>]
    /\ UNCHANGED <<pc, req, cur, idx, ctx, mwcalls, hcalls, fail>>
    /\ UNCHANGED <<setupVars, parked>>

\* ctx.SendError
SendError(e) ==
    /\ CanCall
    /\ resp' = ErrorSent(resp, ctx.status)
    /\ nops' = nops + 1
    /\ last' = [NoCall EXCEPT !.op = "SendError", !.ret = e, !.fresh = ~resp.wroteHeader,
                             !.arg = <<e>>]
    /\ UNCHANGED <<pc, req, cur, idx, ctx, mwcalls, hcalls, fail>>
    /\ UNCHANGED <<setupVars, parked>>

\* http.StatusText for the codes of the model; "" for any other code.
StatusText(code) ==
    IF code = StatusOK THEN "OK"
    ELSE IF code = StatusNoContent THEN "No Content"
    ELSE IF code = StatusBadRequest THEN "Bad Request"
    ELSE IF code = StatusForbidden THEN "Forbidden"
    ELSE IF code = StatusInternalServerError THEN "Internal Server Error"
    ELSE ""

\* ctx.SendStatus: Status(code), then Write(http.StatusText(code)).
SendStatus(code) ==
    /\ CanCall
    /\ ctx' = [ctx EXCEPT !.status = code, !.statusSet = TRUE]
    /\ resp' = Written(resp, code, StatusText(code))
    /\ nops' = nops + 1
    /\ last' = [NoCall EXCEPT !.op = "SendStatus", !.fresh = ~resp.wroteHeader, !.arg = <<code>>]
    /\ UNCHANGED <<pc, req, cur, idx, mwcalls, hcalls, fail>>
    /\ UNCHANGED <<setupVars, parked>>

\* Response values: Success, Message, and Data holding nil or the map {"foo": "bar"}.
Responses == [success : BOOLEAN, message : {"", "hi"}, data : {Nil, "foo=bar"}]

\* A JSON object over the keys of Response: per key the text of its value, or
\* Absent when the object has no such member.
Absent == "absent"

Quote(str) == "\"" \o str \o "\""

\* The JSON text of a Data value.
DataText(v) == IF v = Nil THEN "null" ELSE "{\"foo\":\"bar\"}"

JsonObjects ==
    [success : {Absent, "true", "false"},
     message : {Absent} \cup {Quote(m) : m \in {"", "hi"}},
     data : {Absent} \cup {DataText(v) : v \in {Nil, "foo=bar"}}]

\* The text of a JSON object as the encoder writes it: the members present, in
\* field order, and the newline json.Encoder.Encode ends every document with
\* (the white space of SetIndent is left out of the text).
JsonText(o) ==
    LET m1 == IF o.success = Absent THEN <<>> ELSE <<"\"success\":" \o o.success>>
        m2 == IF o.message = Absent THEN <<>> ELSE <<"\"message\":" \o o.message>>
        m3 == IF o.data = Absent THEN <<>> ELSE <<"\"data\":" \o o.data>>
        ms == m1 \o m2 \o m3
        Join[i \in 0..Len(ms)] ==
            IF i = 0 THEN ""
            ELSE IF i = 1 THEN ms[1]
            ELSE Join[i - 1] \o "," \o ms[i]
    IN "{" \o Join[Len(ms)] \o "}\n"

ResponseObject_NoOmitEmpty(d) ==
    [success |-> IF d.success THEN "true" ELSE "false",
     message |-> Quote(d.message),
     data |-> DataText(d.data)]

\* json.Marshal of a Response by its struct tags: "success" always, "message"
\* and "data" omitted when empty (omitempty: "" and the nil interface).
ResponseObject(d) ==
    [success |-> IF d.success THEN "true" ELSE "false",
     message |-> IF d.message = "" THEN Absent ELSE Quote(d.message),
     data |-> IF d.data = Nil THEN Absent ELSE DataText(d.data)]

\* The response after ctx.JSON(data): content type, status line, then Encode
\* writes the document in one Write.
JSONWritten(w, status, d) ==
    LET w1 == WriteHeader(SetHeader(w, "Content-Type", "application/json"), status)
    IN WriteBody(w1, <<JsonText(ResponseObject(d))>>)

\* ctx.JSON
JSON(d) ==
    /\ CanCall
    /\ resp' = JSONWritten(resp, ctx.status, d)
    /\ nops' = nops + 1
    /\ last' = [NoCall EXCEPT !.op = "JSON", !.fresh = ~resp.wroteHeader, !.arg = <<d>>]
    /\ UNCHANGED <<pc, req, cur, idx, ctx, mwcalls, hcalls, fail>>
    /\ UNCHANGED <<setupVars, parked>>

WithValue_Replace(chain, k, v) == <<[key |-> k, val |-> v]>>

\* context.WithValue: a new context that carries (k, v) on top of its parent.
WithValue(chain, k, v) == Append(chain, [key |-> k, val |-> v])

RECURSIVE ContextValue_Oldest(_, _)
ContextValue_Oldest(chain, k) ==
    IF chain = <<>> THEN NilValue
    ELSE IF Head(chain).key = k THEN Head(chain).val
    ELSE ContextValue_Oldest(Tail(chain), k)

\* Context.Value: the value of the newest context of the chain carrying key k
\* (keys are compared with ==, type and value), nil when none does.
RECURSIVE ContextValue(_, _)
ContextValue(chain, k) ==
    IF chain = <<>> THEN NilValue
    ELSE IF chain[Len(chain)].key = k THEN chain[Len(chain)].val
    ELSE ContextValue(SubSeq(chain, 1, Len(chain) - 1), k)

\* ctx.Locals(key, value...): without value it reads the request's context; with
\* one it replaces the request by one whose context carries value[0], which it
\* returns.
Locals(k, vs) ==
    /\ CanCall
    /\ vs # <<>> => Len(ctx.locals) < MaxLocals
    /\ ctx' = IF vs = <<>> THEN ctx
              ELSE [ctx EXCEPT !.locals = WithValue(@, k, vs[1])]
    /\ nops' = nops + 1
    /\ last' = [NoCall EXCEPT !.op = "Locals", !.arg = <<k, vs>>,
                               !.data = IF vs = <<>> THEN ContextValue(ctx.locals, k)
                                        ELSE vs[1]]
    /\ UNCHANGED <<pc, req, cur, idx, resp, mwcalls, hcalls, fail>>
    /\ UNCHANGED <<setupVars, parked>>

\* ctx.Set
Set(k, v) ==
    /\ CanCall
    /\ resp' = SetHeader(resp, CanonicalKey(k), v)
    /\ nops' = nops + 1
    /\ last' = [NoCall EXCEPT !.op = "Set", !.arg = <<k, v>>]
    /\ UNCHANGED <<pc, req, cur, idx, ctx, mwcalls, hcalls, fail>>
    /\ UNCHANGED <<setupVars, parked>>

HeaderValue_Inbound(w, rq, k, ds) ==
    LET header == rq.header[CanonicalKey(k)]
    IN IF header = "" THEN (IF ds = <<>> THEN "" ELSE ds[1]) ELSE header

\* What ctx.Get(key, defaultValue...) returns for response w and request rq: the
\* response header's value, or when that is empty the first default, or "".
HeaderValue(w, rq, k, ds) ==
    LET header == w.header[CanonicalKey(k)]
    IN IF header = "" THEN (IF ds = <<>> THEN "" ELSE ds[1]) ELSE header

\* ctx.Get
Get(k, ds) ==
    /\ CanCall
    /\ nops' = nops + 1
    /\ last' = [NoCall EXCEPT !.op = "Get", !.arg = <<k, ds>>,
                               !.data = HeaderValue(resp, req, k, ds)]
    /\ UNCHANGED <<pc, req, cur, idx, ctx, resp, mwcalls, hcalls, fail>>
    /\ UNCHANGED <<setupVars, parked>>

CtxNext_Invokes ==
    /\ CanCall
    /\ nops' = nops + 1
    /\ last' = [NoCall EXCEPT !.op = "Next"]
    /\ hcalls' = Append(hcalls, RouteOf(cur))
    /\ UNCHANGED <<pc, req, cur, idx, ctx, resp, mwcalls, fail>>
    /\ UNCHANGED <<setupVars, parked>>

\* ctx.Next: returns nil.
CtxNext ==
    /\ CanCall
    /\ nops' = nops + 1
    /\ last' = [NoCall EXCEPT !.op = "Next"]
    /\ UNCHANGED <<pc, req, cur, idx, ctx, resp, mwcalls, hcalls, fail>>
    /\ UNCHANGED <<setupVars, parked>>

errEmptyBody == "empty body"
errInvalidBody == "invalid body"
errValidator == "test error"

\* json.NewDecoder(body).Decode(data) by the content of the body: nil for a JSON
\* value of the target's shape; io.EOF when the body ends before any value starts
\* (no bytes, or white space only); io.ErrUnexpectedEOF when it ends inside a
\* value; a syntax error; a type error for a value of another shape.
JsonDecode(body) ==
    IF body = "valid" THEN Nil
    ELSE IF body \in {"empty", "blank"} THEN "EOF"
    ELSE IF body = "truncated" THEN "unexpected EOF"
    ELSE IF body = "malformed" THEN "syntax error"
    ELSE "type error"

\* The target after json.Decoder.Decode: the body's value, the fields that fitted
\* before a type error, or untouched.
Target(body) ==
    IF body = "valid" THEN "value"
    ELSE IF body = "mismatch" THEN "partial"
    ELSE "zero"

DecodeResult_AnyMethod(method, body) ==
    IF JsonDecode(body) = Nil THEN Nil
    ELSE IF JsonDecode(body) = "EOF" THEN errEmptyBody
    ELSE errInvalidBody

\* The error ctx.Decode returns: errEmptyBody when the decoder hit io.EOF under
\* POST, PUT, PATCH or DELETE, errInvalidBody for every other decoder error.
DecodeResult(method, body) ==
    IF JsonDecode(body) = Nil THEN Nil
    ELSE IF method \in {"POST", "PUT", "PATCH", "DELETE"} /\ JsonDecode(body) = "EOF"
    THEN errEmptyBody
    ELSE errInvalidBody

AfterDecode_Keep(c, e) == c

\* The context after Decode returned e: status 400 on failure.
AfterDecode(c, e) ==
    IF e = Nil THEN c ELSE [c EXCEPT !.status = StatusBadRequest, !.statusSet = TRUE]

Decode_Rewinds ==
    /\ CanCall
    /\ LET e == DecodeResult(req.method, req.body)
       IN /\ ctx' = AfterDecode(ctx, e)
          /\ last' = [NoCall EXCEPT !.op = "Decode", !.ret = e,
                                     !.body = req.body, !.data = Target(req.body)]
    /\ req' = req
    /\ nops' = nops + 1
    /\ UNCHANGED <<pc, cur, idx, resp, mwcalls, hcalls, fail>>
    /\ UNCHANGED <<setupVars, parked>>

\* ctx.Decode; the decoder consumes the body.
Decode ==
    /\ CanCall
    /\ LET e == DecodeResult(req.method, req.body)
       IN /\ ctx' = AfterDecode(ctx, e)
          /\ last' = [NoCall EXCEPT !.op = "Decode", !.ret = e,
                                     !.body = req.body, !.data = Target(req.body)]
    /\ req' = [req EXCEPT !.body = "empty"]
    /\ nops' = nops + 1
    /\ UNCHANGED <<pc, cur, idx, resp, mwcalls, hcalls, fail>>
    /\ UNCHANGED <<setupVars, parked>>

ValidateResult_NoNilCheck(v, e, verr) ==
    IF e # Nil THEN [ret |-> e, called |-> FALSE]
    ELSE [ret |-> verr, called |-> TRUE]

ValidateResult_NoShortCircuit(v, e, verr) ==
    IF v THEN [ret |-> IF verr # Nil THEN verr ELSE e, called |-> TRUE]
    ELSE [ret |-> e, called |-> FALSE]

\* What ctx.Validate returns and whether it calls validator.Struct, for a context
\* with (v) or without validator, Decode's error e and the validator's verdict
\* verr: Decode's error first, then the validator's if one is configured.
ValidateResult(v, e, verr) ==
    IF e # Nil THEN [ret |-> e, called |-> FALSE]
    ELSE IF v THEN [ret |-> verr, called |-> TRUE]
    ELSE [ret |-> Nil, called |-> FALSE]

\* ctx.Validate; verr is what validator.Struct returns when it is called.
Validate(verr) ==
    /\ CanCall
    /\ LET e == DecodeResult(req.method, req.body)
           r == ValidateResult(ctx.validator, e, verr)
       IN /\ ctx' = AfterDecode(ctx, r.ret)
          /\ last' = [NoCall EXCEPT !.op = "Validate", !.ret = r.ret,
                                     !.body = req.body, !.data = Target(req.body),
                                     !.validated = r.called]
    /\ req' = [req EXCEPT !.body = "empty"]
    /\ nops' = nops + 1
    /\ UNCHANGED <<pc, cur, idx, resp, mwcalls, hcalls, fail>>
    /\ UNCHANGED <<setupVars, parked>>

----
\* Specifications.

\* Middleware chains and groups: New, Use, route registration and Group on up to
\* MaxRouters routers, requests through the root table, functions that return
\* nil or an error of their own.
Next ==
    \/ \E v \in {FALSE} : Len(rts) < 1 /\ New(v)
    \/ nsetup < MaxSetup /\ \E r \in Routers, hs \in SeqsUpTo(MW, MaxUse) : Use(r, hs)
    \/ nsetup < MaxSetup /\ \E r \in Routers, m \in Methods, p \in RoutePaths : Handle(r, m, p)
    \/ nsetup < MaxSetup /\ \E r \in Routers, P \in Prefixes : Group(r, P)
    \/ \E r \in Roots, m \in ReqMethods, p \in ReqPaths : ServeHTTP(r, m, p, "empty")
    \/ \E v \in {Nil} \cup Errs : ReturnDirect(v)
    \/ Finish

Spec == Init /\ [][Next]_vars

\* Pattern tables: independent routers, groups and combined tables, no middleware.
NextMount ==
    \/ \E v \in {FALSE} : New(v)
    \/ nsetup < MaxSetupMount /\ \E r \in Routers, m \in Methods, p \in RoutePaths : Handle(r, m, p)
    \/ nsetup < MaxSetupMount /\ \E r \in Routers, P \in Prefixes : Group(r, P)
    \/ nsetup < MaxSetupMount /\ \E r \in Routers, os \in SeqsUpTo(Routers, MaxCombine) : Combine(r, os)
    \/ \E r \in Roots, m \in ReqMethods, p \in ReqPaths : ServeHTTP(r, m, p, "empty")
    \/ \E v \in {Nil} \cup Errs : ReturnDirect(v)
    \/ Finish

SpecMount == Init /\ [][NextMount]_vars

\* The context and the error path of the dispatch loop: one router, with or
\* without validator, whose middleware and handlers call the context.
NextCtx ==
    \/ \E v \in BOOLEAN : Len(rts) < 1 /\ New(v)
    \/ nsetup < MaxSetupCtx /\ \E r \in Routers, hs \in SeqsUpTo(MW, 1) : Use(r, hs)
    \/ nsetup < MaxSetupCtx /\ \E r \in Routers, m \in CtxMethods, p \in CtxPaths : Handle(r, m, p)
    \/ \E r \in Roots, m \in CtxMethods, p \in CtxPaths, b \in Bodies : ServeHTTP(r, m, p, b)
    \/ \E code \in Codes : Status(code)
    \/ \E msg \in Msgs : Write(msg)
    \/ \E e \in Errs : SendError(e)
    \/ Decode
    \/ \E verr \in {Nil, errValidator} : Validate(verr)
    \/ \E v \in {Nil} \cup Errs : ReturnDirect(v)
    \/ ReturnLast
    \/ Finish

SpecCtx == Init /\ [][NextCtx]_vars

\* The response helpers: one router whose handlers set a status and write text,
\* a status text or a JSON document.
NextWrite ==
    \/ \E v \in {FALSE} : Len(rts) < 1 /\ New(v)
    \/ nsetup < MaxSetupCtx /\ \E r \in Routers, m \in Methods, p \in CtxPaths : Handle(r, m, p)
    \/ \E r \in Roots, m \in Methods, p \in CtxPaths : ServeHTTP(r, m, p, "empty")
    \/ \E code \in WriteCodes : Status(code)
    \/ \E msg \in WriteMsgs : Write(msg)
    \/ \E code \in WriteCodes : SendStatus(code)
    \/ \E d \in Responses : JSON(d)
    \/ \E e \in Errs : SendError(e)
    \/ \E v \in {Nil} \cup Errs : ReturnDirect(v)
    \/ ReturnLast
    \/ Finish

SpecWrite == Init /\ [][NextWrite]_vars

\* Request-scoped values: one router whose middleware and handlers set and read
\* locals.
NextLocals ==
    \/ \E v \in {FALSE} : Len(rts) < 1 /\ New(v)
    \/ nsetup < MaxSetupCtx /\ \E r \in Routers, hs \in SeqsUpTo(MW, 1) : Use(r, hs)
    \/ nsetup < MaxSetupCtx /\ \E r \in Routers, m \in {"GET"}, p \in CtxPaths : Handle(r, m, p)
    \/ \E r \in Roots, m \in {"GET"}, p \in CtxPaths : ServeHTTP(r, m, p, "empty")
    \/ \E k \in LocalKeys, vs \in {<<>>} \cup SeqsUpTo(LocalVals, 1) : Locals(k, vs)
    \/ \E v \in {Nil} \cup Errs : ReturnDirect(v)
    \/ Finish

SpecLocals == Init /\ [][NextLocals]_vars

\* Response headers: one router whose middleware and handlers set and read
\* headers and write text.
NextHeader ==
    \/ \E v \in {FALSE} : Len(rts) < 1 /\ New(v)
    \/ nsetup < MaxSetupCtx /\ \E r \in Routers, hs \in SeqsUpTo(MW, 1) : Use(r, hs)
    \/ nsetup < MaxSetupCtx /\ \E r \in Routers, m \in {"GET"}, p \in CtxPaths : Handle(r, m, p)
    \/ \E r \in Roots, m \in {"GET"}, p \in CtxPaths : ServeHTTP(r, m, p, "empty")
    \/ \E k \in UserKeys, v \in HeaderVals : Set(k, v)
    \/ \E k \in UserKeys, ds \in Defaults : Get(k, ds)
    \/ \E msg \in Msgs : Write(msg)
    \/ \E v \in {Nil} \cup Errs : ReturnDirect(v)
    \/ Finish

SpecHeader == Init /\ [][NextHeader]_vars

\* The errors a function of the chain passes to SendError.
ChainErrs == {"boom", "oops"}

\* Chain advancement: one router with up to MaxUse middleware that set a status,
\* a header or a local, call Next or not, and return nil, Next's result or an
\* error.
NextChain ==
    \/ \E v \in {FALSE} : Len(rts) < 1 /\ New(v)
    \/ nsetup < MaxSetupCtx /\ \E r \in Routers, hs \in SeqsUpTo(MW, MaxUse) : Use(r, hs)
    \/ nsetup < MaxSetupCtx /\ \E r \in Routers, m \in {"GET"}, p \in CtxPaths : Handle(r, m, p)
    \/ \E r \in Roots, m \in {"GET"}, p \in CtxPaths : ServeHTTP(r, m, p, "empty")
    \/ \E code \in {StatusForbidden} : Status(code)
    \/ \E k \in {"Test"}, v \in {"v1"} : Set(k, v)
    \/ \E k \in {<<"string", "id">>}, vs \in {<<<<"string", "v1">>>>} : Locals(k, vs)
    \/ CtxNext
    \/ \E e \in ChainErrs : SendError(e)
    \/ \E v \in {Nil} \cup Errs : ReturnDirect(v)
    \/ ReturnLast
    \/ Finish

SpecChain == Init /\ [][NextChain]_vars

\* The same with every invocation returning: a function that was entered does
\* not run for ever (it makes at most MaxOps context calls and then returns).
SpecChainFair == SpecChain /\ WF_vars(\E v \in {Nil} \cup Errs : ReturnDirect(v))

\* Chains behind other routers' tables: routers with middleware of their own,
\* reached directly, as a group or through Combine.
NextNested ==
    \/ \E v \in {FALSE} : Len(rts) < MaxNested /\ New(v)
    \/ nsetup < MaxSetup /\ \E r \in Routers, h \in MW : Use(r, <<h>>)
    \/ nsetup < MaxSetup /\ \E r \in Routers, m \in {"GET"}, p \in CtxPaths : Handle(r, m, p)
    \/ nsetup < MaxSetup /\ \E r \in Routers, P \in {<<"a">>} : Len(rts) < MaxNested /\ Group(r, P)
    \/ nsetup < MaxSetup /\ \E r \in Routers, o \in Routers : Combine(r, <<o>>)
    \/ \E r \in Roots, m \in {"GET"}, p \in {<<"b">>, <<"a", "b">>} : ServeHTTP(r, m, p, "empty")
    \/ \E v \in {Nil} \cup Errs : ReturnDirect(v)
    \/ Finish

SpecNested == Init /\ [][NextNested]_vars

\* Two requests in flight on one router, interleaved at every context call.
NextConcurrent ==
    \/ \E v \in {FALSE} : Len(rts) < 1 /\ New(v)
    \/ nsetup < MaxSetupCtx /\ \E r \in Routers, m \in {"GET"}, p \in CtxPaths : Handle(r, m, p)
    \/ \E r \in Roots, m \in {"GET"}, p \in CtxPaths : ServeHTTP(r, m, p, "empty")
    \/ \E code \in {StatusForbidden} : Status(code)
    \/ \E k \in {"Test"}, v \in {"v1"} : Set(k, v)
    \/ \E k \in {<<"string", "id">>}, vs \in {<<<<"string", "v1">>>>} : Locals(k, vs)
    \/ \E msg \in Msgs : Write(msg)
    \/ \E v \in {Nil} : ReturnDirect(v)
    \/ Finish
    \/ Switch

SpecConcurrent == Init /\ [][NextConcurrent]_vars

\* Late registration: Use is called only on a router that already has its route;
\* groups are created before or after.
NextLate ==
    \/ \E v \in {FALSE} : Len(rts) < 1 /\ New(v)
    \/ nsetup < MaxSetup /\ \E r \in Routers, m \in {"GET"}, p \in CtxPaths : Handle(r, m, p)
    \/ nsetup < MaxSetup /\ \E r \in Routers, h \in MW : rts[r].routes # {} /\ Use(r, <<h>>)
    \/ nsetup < MaxSetup /\ \E r \in Routers, P \in {<<"a">>} : Len(rts) < MaxNested /\ Group(r, P)
    \/ \E r \in Roots, m \in {"GET"}, p \in {<<"b">>, <<"a", "b">>} : ServeHTTP(r, m, p, "empty")
    \/ \E v \in {Nil} \cup Errs : ReturnDirect(v)
    \/ Finish

SpecLate == Init /\ [][NextLate]_vars

\* One context for the whole chain: middleware and handler set a status, store
\* and read a local and write text or JSON.
NextShared ==
    \/ \E v \in {FALSE} : Len(rts) < 1 /\ New(v)
    \/ nsetup < MaxSetupCtx /\ \E r \in Routers, hs \in SeqsUpTo({"m1"}, MaxUse) : Use(r, hs)
    \/ nsetup < MaxSetupCtx /\ \E r \in Routers, m \in {"GET"}, p \in CtxPaths : Handle(r, m, p)
    \/ \E r \in Roots, m \in {"GET"}, p \in CtxPaths : ServeHTTP(r, m, p, "empty")
    \/ \E code \in {StatusForbidden} : Status(code)
    \/ \E k \in {<<"string", "id">>}, vs \in {<<>>, <<<<"string", "v1">>>>} : Locals(k, vs)
    \/ \E msg \in Msgs : Write(msg)
    \/ \E d \in {[success |-> TRUE, message |-> "hi", data |-> Nil]} : JSON(d)
    \/ \E v \in {Nil} \cup Errs : ReturnDirect(v)
    \/ Finish

SpecShared == Init /\ [][NextShared]_vars

\* Repeated decoding: every request carries a body of exactly one JSON value, of
\* the target's shape or of another.
NextRepeat ==
    \/ \E v \in BOOLEAN : Len(rts) < 1 /\ New(v)
    \/ nsetup < MaxSetupCtx /\ \E r \in Routers, hs \in SeqsUpTo({"m1"}, 1) : Use(r, hs)
    \/ nsetup < MaxSetupCtx /\ \E r \in Routers, m \in CtxMethods, p \in CtxPaths : Handle(r, m, p)
    \/ \E r \in Roots, m \in CtxMethods, p \in CtxPaths, b \in {"valid", "mismatch"} :
          ServeHTTP(r, m, p, b)
    \/ Decode
    \/ \E verr \in {Nil, errValidator} : Validate(verr)
    \/ \E v \in {Nil} : ReturnDirect(v)
    \/ ReturnLast
    \/ Finish

SpecRepeat == Init /\ [][NextRepeat]_vars

\* Groups of groups: one root, a group of it and a group of that group, each with
\* middleware and routes of its own.
NextDeep ==
    \/ \E v \in {FALSE} : Len(rts) < 1 /\ New(v)
    \/ nsetup < MaxSetupDeep /\ \E r \in Routers, h \in MW : Use(r, <<h>>)
    \/ nsetup < MaxSetupDeep /\ \E r \in Routers, m \in {"GET"}, p \in RoutePaths : Handle(r, m, p)
    \/ nsetup < MaxSetupDeep /\ \E r \in Routers, P \in {<<"a">>} : r = Len(rts) /\ Group(r, P)
    \/ \E r \in Roots, m \in {"GET"}, p \in {<<"a", "a", "b">>, <<"a", "b">>} :
          ServeHTTP(r, m, p, "empty")
    \/ \E v \in {Nil} \cup Errs : ReturnDirect(v)
    \/ Finish

SpecDeep == Init /\ [][NextDeep]_vars

----
\* Properties of the dispatch chain and of groups.

Dispatching == cur.kind = "route" /\ pc \in {"mw", "handler", "done"}

\* C1: a request matching a registered route runs the router's middleware in
\* registration order and then, if all of them returned nil, that route's handler
\* exactly once and no other handler; the handler never runs before the last
\* middleware has returned.
C1_ChainThenHandler ==
    Dispatching =>
        /\ IsPrefix(mwcalls, Chain(cur.rt))
        /\ Len(hcalls) <= 1
        /\ (pc = "mw" => hcalls = <<>>)
        /\ (hcalls # <<>> =>
                /\ mwcalls = Chain(cur.rt)
                /\ fail.by # "mw"
                /\ hcalls = <<RouteOf(cur)>>
                /\ <<cur.method, cur.path>> \in rts[cur.rt].routes)
        /\ (pc \in {"handler", "done"} /\ fail.by # "mw" => hcalls = <<RouteOf(cur)>>)
        /\ (<<req.method, req.path>> \in rts[req.rt].routes =>
                RouteOf(cur) = [rt |-> req.rt, method |-> req.method, path |-> req.path])

C1_Witness ==
    /\ pc = "done"
    /\ cur.kind = "route"
    /\ fail.by = "none"
    /\ Len(mwcalls) = 2
    /\ mwcalls[1] # mwcalls[2]
    /\ hcalls = <<RouteOf(cur)>>
    /\ Cardinality(rts[cur.rt].routes) = 2

\* C2: once a middleware has returned an error, no later middleware and no
\* terminal handler is invoked for that request.
C2_ShortCircuit ==
    fail.by = "mw" =>
        /\ pc = "done"
        /\ hcalls = <<>>
        /\ Len(mwcalls) = idx
        /\ mwcalls = SubSeq(Chain(cur.rt), 1, idx)

C2_Witness ==
    /\ fail.by = "mw"
    /\ idx = 1
    /\ Len(Chain(cur.rt)) = 2
    /\ rts[cur.rt].routes # {}

\* C8: a group created from a router whose list was a1, a2 and then given b by its
\* own Use runs a1, a2, b in that order before the group's handler.
C8_GroupChainOrder ==
    /\ \A g \in Routers :
          rts[g].parent # 0 => rts[g].middlewares = rts[g].inherited \o rts[g].own
    /\ (Dispatching /\ rts[cur.rt].parent # 0 =>
          /\ IsPrefix(mwcalls, rts[cur.rt].inherited \o rts[cur.rt].own)
          /\ (hcalls # <<>> => mwcalls = rts[cur.rt].inherited \o rts[cur.rt].own))

C8_Witness ==
    /\ pc = "done"
    /\ cur.kind = "route"
    /\ rts[cur.rt].parent # 0
    /\ rts[cur.rt].inherited = <<"m1", "m2">>
    /\ rts[cur.rt].own = <<"m1">>
    /\ mwcalls = <<"m1", "m2", "m1">>
    /\ hcalls = <<RouteOf(cur)>>

\* C9: a Use on the parent after a group was created leaves the group's list as
\* it was, so a dispatch of a group's route runs none of the handlers added later.
C9_LaterUseNotInherited ==
    [][\A g \in Routers :
          rts[g].parent # 0 /\ rts'[rts[g].parent].middlewares # rts[rts[g].parent].middlewares
              => rts'[g].middlewares = rts[g].middlewares]_vars

C9_Witness ==
    /\ pc = "done"
    /\ cur.kind = "route"
    /\ fail.by = "none"
    /\ rts[cur.rt].parent # 0
    /\ rts[cur.rt].inherited = <<"m1">>
    /\ rts[rts[cur.rt].parent].middlewares = <<"m1", "m2">>
    /\ mwcalls = <<"m1">>
    /\ hcalls = <<RouteOf(cur)>>

----
\* Properties of the error path of the dispatch loop.

Contains(body, msg) == \E i \in 1..Len(body) : body[i] = msg

Failed == pc = "done" /\ fail.by # "none"

\* C3 as stated: a function that has a status set on the context and returns an
\* error without anything written gets a response with that status and the
\* message in the body.
C3_StoredStatusUsed ==
    Failed /\ fail.statusSet /\ ~fail.wrote =>
        /\ resp.code = fail.status
        /\ Contains(resp.body, fail.msg)

\* C3 amended: a function that has a status set on the context and returns an
\* error without anything written gets a response with status 500, whatever the
\* stored status, and the message in the body.
C3_StoredStatusIgnored ==
    Failed /\ fail.statusSet /\ ~fail.wrote =>
        /\ resp.code = StatusInternalServerError
        /\ ctx.status = fail.status
        /\ Contains(resp.body, fail.msg)

C3_Witness ==
    /\ Failed
    /\ fail.by = "handler"
    /\ fail.via = "Validate"
    /\ fail.msg = errValidator
    /\ fail.status = StatusBadRequest
    /\ ~fail.wrote
    /\ resp.code = StatusInternalServerError

\* C4: a function that returns an error with no status set and nothing written
\* gets status 500, Content-Type text/plain; charset=utf-8 and the message in the
\* body.
C4_DefaultError ==
    Failed /\ ~fail.statusSet /\ ~fail.wrote =>
        /\ resp.code = StatusInternalServerError
        /\ resp.sent["Content-Type"] = "text/plain; charset=utf-8"
        /\ resp.header["Content-Type"] = "text/plain; charset=utf-8"
        /\ Contains(resp.body, fail.msg)

C4_Witness ==
    /\ Failed
    /\ fail.by = "mw"
    /\ fail.via = "direct"
    /\ ~fail.statusSet
    /\ ~fail.wrote
    /\ resp.code = StatusInternalServerError

C6_SendErrorDefault500 ==
    Failed /\ fail.via = "SendError" /\ fail.fresh /\ ~fail.statusSet =>
        /\ resp.code = StatusInternalServerError
        /\ Contains(resp.body, fail.msg)

----
\* Properties of the pattern tables.

Served == pc \in {"mw", "handler", "done", "crash"}

\* The routes of the groups mounted on router r, each with its mount.
GroupRoutes(r) ==
    {[mt |-> mt, key |-> k] : mt \in {x \in rts[r].mounts : x.strip}, k \in Methods \X RoutePaths}
        \cap UNION {{[mt |-> mt, key |-> k] : k \in rts[mt.to].routes} : mt \in rts[r].mounts}

GroupTarget(gr) == [rt |-> gr.mt.to, method |-> gr.key[1], path |-> gr.key[2]]

FullPath(gr) == gr.mt.prefix \o gr.key[2]

\* Router r's own table holds a pattern more specific than mount mt for (m, p):
\* a route that matches the request, or a mount under a longer prefix of p.
Shadowed(r, mt, m, p) ==
    \/ <<m, p>> \in rts[r].routes
    \/ m = "HEAD" /\ <<"GET", p>> \in rts[r].routes
    \/ \E x \in rts[r].mounts :
          Len(x.prefix) > Len(mt.prefix) /\ IsPrefix(x.prefix, p)

\* The routers whose tables a request entering r's table can be delegated to.
RECURSIVE ReachN(_, _)
ReachN(S, n) ==
    IF n = 0 THEN S
    ELSE ReachN(S \cup {mt.to : mt \in UNION {rts[x].mounts : x \in S}}, n - 1)

Reach(r) == ReachN({r}, Len(rts))

NoFallback(r) == \A x \in Reach(r) : \A mt \in rts[x].mounts : mt.strip

\* C7 as stated: a route (M, p) of a group mounted under P on r is invoked by the
\* request M P+p through r's table, and by no request for another path.
C7_GroupRouteReachable ==
    Served =>
        \A gr \in GroupRoutes(req.rt) :
            /\ (req.method = gr.key[1] /\ req.path = FullPath(gr) => hcalls = <<GroupTarget(gr)>>)
            /\ (req.path # FullPath(gr) => hcalls # <<GroupTarget(gr)>>)

\* C7 amended: the request M P+p invokes the group's route unless r's own table
\* holds a more specific pattern for it (a route matching the request, or a group
\* under a longer prefix); and while no table reachable from r has a Combine
\* fallback, no request for another path invokes it.
C7_GroupRouteUnlessShadowed ==
    Served =>
        \A gr \in GroupRoutes(req.rt) :
            /\ ((/\ req.method = gr.key[1]
                 /\ req.path = FullPath(gr)
                 /\ ~Shadowed(req.rt, gr.mt, req.method, req.path))
                    => hcalls = <<GroupTarget(gr)>>)
            /\ (req.path # FullPath(gr) /\ NoFallback(req.rt) => hcalls # <<GroupTarget(gr)>>)

C7_Witness ==
    /\ pc = "done"
    /\ req.rt = 1
    /\ req.path = <<"a", "b">>
    /\ \E gr \in GroupRoutes(1) :
          /\ gr.mt.prefix = <<"a">>
          /\ gr.key = <<req.method, <<"b">>>>
          /\ hcalls = <<GroupTarget(gr)>>
    /\ rts[1].routes # {}

\* The full paths registered on router r, directly or in its groups.
RECURSIVE RegisteredPathsN(_, _)
RegisteredPathsN(r, n) ==
    {k[2] : k \in rts[r].routes}
        \cup (IF n = 0 THEN {}
              ELSE UNION {{mt.prefix \o q : q \in RegisteredPathsN(mt.to, n - 1)} :
                             mt \in {x \in rts[r].mounts : x.strip}})

RegisteredPaths(r) == RegisteredPathsN(r, Len(rts))

\* The request in flight entered a table to which b's table was combined, its
\* path is registered on b and not on the entry router, and b's own table
\* resolves it to a route.
OnlyOn(b) ==
    /\ Served
    /\ b # req.rt
    /\ \E mt \in rts[req.rt].mounts : ~mt.strip /\ mt.to = b
    /\ req.path \in RegisteredPaths(b)
    /\ req.path \notin RegisteredPaths(req.rt)
    /\ Resolve(b, req.method, req.path).kind = "route"

\* The request is dispatched exactly as b's own table dispatches it: same route
\* and path, a new context and nothing written before the handler runs.
ServedAsBy(b) ==
    /\ cur = Resolve(b, req.method, req.path)
    /\ hcalls = <<RouteOf(cur)>>
    /\ (pc = "handler" => resp = NewRecorder /\ ctx = NewCtx(rts[cur.rt].validator))

\* C10 as stated: after a.Combine(b's table) a request whose path is registered
\* only on b is served through a's table by b's handler, as b's table serves it.
C10_CombinedServed ==
    \A b \in Routers : OnlyOn(b) => ServedAsBy(b)

\* C10 amended: the same, for a request whose path lies under no group prefix of a.
C10_CombinedServedOutsideGroups ==
    \A b \in Routers :
        OnlyOn(b) /\ (\A mt \in rts[req.rt].mounts : mt.strip => ~IsPrefix(mt.prefix, req.path))
            => ServedAsBy(b)

C10_Witness ==
    /\ pc = "done"
    /\ \E b \in Routers :
          /\ OnlyOn(b)
          /\ ServedAsBy(b)
          /\ cur.rt # b
          /\ rts[cur.rt].parent = b
    /\ fail.by = "none"

\* C11: Combine with two or more tables, or a second Combine on the same
\* receiver, mounts every table as a "/" fallback and returns without error: no
\* Combine call ends in a registration panic.
C11_CombineManyMounted == panicked # "Combine"

----
\* Properties of Decode and Validate.

MutatingMethods == {"POST", "PUT", "PATCH", "DELETE"}

Decoded == last.op = "Decode"

\* C12 as stated: Decode on an empty body fails with EmptyBody exactly under POST,
\* PUT, PATCH or DELETE; an empty body under GET, HEAD or OPTIONS and every
\* non-empty body that fails to decode give InvalidBody; a valid body gives no
\* error and populates the target.
C12_DecodeErrors ==
    Decoded =>
        /\ (last.ret = errEmptyBody <=> last.body = "empty" /\ req.method \in MutatingMethods)
        /\ (last.body = "empty" /\ req.method \in {"GET", "HEAD", "OPTIONS"}
                => last.ret = errInvalidBody)
        /\ (last.body \notin {"empty", "valid"} => last.ret = errInvalidBody)
        /\ (last.body = "valid" => last.ret = Nil /\ last.data = "value")

\* C12 amended: a body with no bytes or with white space only counts as empty;
\* every body with other content that fails to decode gives InvalidBody.
C12_DecodeErrorsBlankIsEmpty ==
    Decoded =>
        /\ (last.ret = errEmptyBody <=>
                last.body \in {"empty", "blank"} /\ req.method \in MutatingMethods)
        /\ (last.body \in {"empty", "blank"} /\ req.method \in {"GET", "HEAD", "OPTIONS"}
                => last.ret = errInvalidBody)
        /\ (last.body \notin {"empty", "blank", "valid"} => last.ret = errInvalidBody)
        /\ (last.body = "valid" => last.ret = Nil /\ last.data = "value")

C12_Witness ==
    /\ Decoded
    /\ pc = "handler"
    /\ req.method = "DELETE"
    /\ last.body = "blank"
    /\ last.ret = errEmptyBody

\* C13: a Decode or Validate call that returns an error leaves the context's
\* status at 400 and writes nothing to the response: no status line, no header,
\* no body; the request stays with the function that made the call.
C13_DecodeFailureOnlyReturned ==
    [][(last'.op \in {"Decode", "Validate"} /\ nops' = nops + 1 /\ last'.ret # Nil)
          => /\ ctx'.status = StatusBadRequest
             /\ resp' = resp
             /\ pc' = pc
             /\ fail' = fail]_vars

C13_Witness ==
    /\ last.op = "Validate"
    /\ last.ret = errValidator
    /\ nops = 2
    /\ ctx.status = StatusBadRequest
    /\ resp = NewRecorder
    /\ pc = "mw"

ValidateStep == last'.op = "Validate" /\ nops' = nops + 1

\* C14: Validate on a context with a validator: when Decode fails the validator is
\* not called and Decode's error is returned; when Decode succeeds and the
\* validator rejects, the validator's own error is returned and the status is
\* 400; when both succeed nil is returned and the status is left as it was.
C14_ValidateWithValidator ==
    [][(ValidateStep /\ ctx.validator) =>
          /\ (JsonDecode(req.body) # Nil =>
                  /\ ~last'.validated
                  /\ last'.ret = DecodeResult(req.method, req.body))
          /\ (JsonDecode(req.body) = Nil =>
                  /\ last'.validated
                  /\ last'.ret \in {Nil, errValidator})
          /\ (last'.validated /\ last'.ret # Nil =>
                  /\ last'.ret = errValidator
                  /\ ctx'.status = StatusBadRequest)
          /\ (last'.ret = Nil => last'.validated /\ ctx' = ctx)]_vars

C14_Witness ==
    /\ last.op = "Validate"
    /\ ctx.validator
    /\ last.validated
    /\ last.body = "valid"
    /\ last.ret = errValidator
    /\ ctx.status = StatusBadRequest
    /\ pc = "handler"

\* C15: on a context without validator a Validate call does what a Decode call
\* does in the same state: the same error returned, the same status afterwards,
\* the same target, the same body consumed, and nothing else changed.
C15_ValidateIsDecodeWithoutValidator ==
    [][(ValidateStep /\ ~ctx.validator) =>
          /\ last'.ret = DecodeResult(req.method, req.body)
          /\ ctx' = AfterDecode(ctx, DecodeResult(req.method, req.body))
          /\ last'.data = Target(req.body)
          /\ ~last'.validated
          /\ req' = [req EXCEPT !.body = "empty"]
          /\ UNCHANGED <<pc, resp, fail>>]_vars

C15_Witness ==
    /\ last.op = "Validate"
    /\ ~ctx.validator
    /\ rts[cur.rt].validator = FALSE
    /\ last.body = "valid"
    /\ last.ret = Nil
    /\ last.data = "value"
    /\ ctx.status = StatusOK

----
\* Properties of the response helpers.

\* The bytes of a body: its chunks in the order written.
RECURSIVE BodyText(_)
BodyText(body) == IF body = <<>> THEN "" ELSE Head(body) \o BodyText(Tail(body))

WriteStep == last'.op \in {"Write", "SendStatus"} /\ nops' = nops + 1

\* C16: a Write made while the stored status is 204, directly or through
\* SendStatus(204), adds no byte to the body whatever the message, and 204 is the
\* status written (the response's status when this is its first write).
C16_NoContentNoBody ==
    [][(WriteStep /\ ctx'.status = StatusNoContent) =>
          /\ resp'.body = resp.body
          /\ (~resp.wroteHeader => resp'.wroteHeader /\ resp'.code = StatusNoContent)]_vars

C16_Witness ==
    /\ last.op = "Write"
    /\ last.arg = <<"hello">>
    /\ last.fresh
    /\ ctx.status = StatusNoContent
    /\ resp.code = StatusNoContent
    /\ resp.body = <<>>

\* C17: a Write on a response not yet written, with a stored status s other than
\* 204, sends Content-Type text/plain; charset=utf-8, status s (200 when Status
\* was never called) and a body of exactly the message.
C17_WriteText ==
    [][(last'.op = "Write" /\ nops' = nops + 1
            /\ ctx.status # StatusNoContent /\ ~resp.wroteHeader) =>
          /\ resp'.wroteHeader
          /\ resp'.code = ctx.status
          /\ (~ctx.statusSet => resp'.code = StatusOK)
          /\ resp'.sent["Content-Type"] = "text/plain; charset=utf-8"
          /\ BodyText(resp'.body) = last'.arg[1]]_vars

C17_Witness ==
    /\ last.op = "Write"
    /\ last.arg = <<"hello">>
    /\ last.fresh
    /\ ctx.status = StatusForbidden
    /\ resp.code = StatusForbidden
    /\ resp.sent["Content-Type"] = "text/plain; charset=utf-8"
    /\ resp.body = <<"hello">>

\* json.Unmarshal of a body into a Response, as the tests read a response back:
\* the object whose text the body is, then its members by key, a missing member
\* leaving the zero value.
ParseObject(text) == CHOOSE o \in JsonObjects : JsonText(o) = text

FromObject(o) ==
    [success |-> o.success = "true",
     message |-> IF o.message = Absent THEN ""
                 ELSE CHOOSE m \in {"", "hi"} : Quote(m) = o.message,
     data |-> IF o.data \in {Absent, "null"} THEN Nil
              ELSE CHOOSE v \in {"foo=bar"} : DataText(v) = o.data]

\* C18: JSON(data) sets Content-Type application/json, writes the stored status
\* (200 by default) and one document that parses back to data: success and data
\* as given, and no message member when the message is empty.
C18_JSONRoundTrip ==
    [][(last'.op = "JSON" /\ nops' = nops + 1) =>
          /\ resp'.header["Content-Type"] = "application/json"
          /\ resp'.wroteHeader
          /\ (~resp.wroteHeader =>
                  /\ resp'.code = ctx.status
                  /\ (~ctx.statusSet => resp'.code = StatusOK)
                  /\ resp'.sent["Content-Type"] = "application/json")
          /\ Len(resp'.body) = Len(resp.body) + 1
          /\ SubSeq(resp'.body, 1, Len(resp.body)) = resp.body
          /\ LET text == resp'.body[Len(resp'.body)]
                 d == last'.arg[1]
             IN /\ \E o \in JsonObjects : JsonText(o) = text
                /\ FromObject(ParseObject(text)) = d
                /\ ParseObject(text).success # Absent
                /\ (d.message = "" <=> ParseObject(text).message = Absent)]_vars

C18_Witness ==
    /\ last.op = "JSON"
    /\ last.fresh
    /\ last.arg = <<[success |-> TRUE, message |-> "", data |-> "foo=bar"]>>
    /\ resp.code = StatusOK
    /\ resp.sent["Content-Type"] = "application/json"
    /\ resp.body = <<"{\"success\":true,\"data\":{\"foo\":\"bar\"}}\n">>

----
\* Properties of the request-scoped values.

\* The value most recently set for key k in a chain, by position: the entry with
\* the greatest index among those of key k.
LatestFor(chain, k) ==
    LET at == {i \in 1..Len(chain) : chain[i].key = k}
    IN IF at = {} THEN NilValue
       ELSE chain[CHOOSE i \in at : \A j \in at : j <= i].val

LocalsStep == last'.op = "Locals" /\ nops' = nops + 1

\* C19: Locals(k, v) returns v, and a Locals(k) after it returns v; Locals(k) for
\* a key never set returns nil; after a later Locals(k, v2) it returns v2; and a
\* set for k changes the value read for no other key.  Keys differ by type as
\* well as by value.
C19_LocalsStore ==
    [][LocalsStep =>
          LET k == last'.arg[1]
              vs == last'.arg[2]
          IN IF vs = <<>>
             THEN /\ last'.data = LatestFor(ctx.locals, k)
                  /\ ctx' = ctx
             ELSE /\ last'.data = vs[1]
                  /\ LatestFor(ctx'.locals, k) = vs[1]
                  /\ ContextValue(ctx'.locals, k) = vs[1]
                  /\ \A k2 \in LocalKeys \ {k} :
                        /\ ContextValue(ctx'.locals, k2) = ContextValue(ctx.locals, k2)
                        /\ LatestFor(ctx'.locals, k2) = LatestFor(ctx.locals, k2)]_vars

C19_Witness ==
    /\ last.op = "Locals"
    /\ pc = "handler"
    /\ mwcalls # <<>>
    /\ last.arg = <<<<"string", "id">>, <<>>>>
    /\ last.data = <<"int", "2">>
    /\ Len(ctx.locals) = 3
    /\ ctx.locals[1] = [key |-> <<"string", "id">>, val |-> <<"string", "v1">>]
    /\ ctx.locals[2] = [key |-> <<"string", "id">>, val |-> <<"int", "2">>]
    /\ ctx.locals[3].key = <<"ctxKey", "id">>

----
\* Properties of the response headers.

\* C20: Get(key) returns the value most recently stored for the key on the
\* response headers (by Set, which also the content type of Write goes through),
\* never the inbound request's value; when that value is empty or none was
\* stored it returns the default given, or "" without one.  A Set stores its
\* value for its key alone, and only the header-setting calls change the headers
\* while a function runs.
C20_GetReadsOutbound ==
    [][/\ (last'.op = "Get" /\ nops' = nops + 1 =>
             LET k == last'.arg[1]
                 ds == last'.arg[2]
                 stored == resp.header[CanonicalKey(k)]
             IN /\ (stored # "" => last'.data = stored)
                /\ (stored = "" /\ ds # <<>> => last'.data = ds[1])
                /\ (stored = "" /\ ds = <<>> => last'.data = "")
                /\ last'.data # req.header[CanonicalKey(k)]
                /\ resp' = resp)
       /\ (last'.op = "Set" /\ nops' = nops + 1 =>
             LET k == last'.arg[1]
                 v == last'.arg[2]
             IN /\ resp'.header[CanonicalKey(k)] = v
                /\ \A k2 \in HeaderKeys \ {CanonicalKey(k)} :
                      resp'.header[k2] = resp.header[k2])
       /\ (Running /\ pc' = pc /\ resp'.header # resp.header =>
             last'.op \in {"Set", "Write"})]_vars

C20_Witness ==
    /\ last.op = "Get"
    /\ pc = "handler"
    /\ mwcalls # <<>>
    /\ last.arg = <<"test", <<"dflt">>>>
    /\ last.data = "v2"
    /\ resp.header["Test"] = "v2"
    /\ req.header["Test"] = "inbound"

----
\* Properties of Next and of chain advancement.

\* A middleware returns success: the dispatch loop leaves it for the next stage.
MiddlewareReturnsNil ==
    /\ pc = "mw"
    /\ pc' \in {"mw", "handler"}
    /\ (idx' # idx \/ pc' # pc)

SendErrorStep == last'.op = "SendError" /\ nops' = nops + 1

\* C22: SendError(err) writes the stored status as the status line of a response
\* that has none yet (a status line already written stays), writes no body
\* bytes and no header, leaves the stored status unchanged and returns err.
C22_SendErrorEffect ==
    [][SendErrorStep =>
        /\ resp'.wroteHeader
        /\ resp'.code = (IF resp.wroteHeader THEN resp.code ELSE ctx.status)
        /\ resp'.body = resp.body
        /\ resp'.header = resp.header
        /\ ctx' = ctx
        /\ last'.ret = last'.arg[1]
        /\ UNCHANGED <<pc, idx, mwcalls, hcalls, fail>>]_vars

C22_Witness ==
    /\ last.op = "SendError"
    /\ last.ret = "oops"
    /\ last.fresh
    /\ ctx.status = StatusForbidden
    /\ resp.code = StatusForbidden
    /\ resp.body = <<>>

----
\* Properties of the response of a dispatch.

\* The step in which a function of the chain returns v # nil to the dispatch loop.
AbortStep == Running /\ pc' = "done" /\ fail'.by # "none"

\* The step in which a function of the chain returns nil to the dispatch loop.
SuccessStep == Running /\ nops' = 0 /\ fail' = NoFail /\ pc' # "idle"

\* C23: the step that aborts a dispatch leaves a response with a status line and
\* the error's text in its body, after what was written before; a step that
\* returns nil writes nothing, so the response of a completed dispatch changes
\* only in the context calls of its middleware and handler.
C23_RouterWritesOnlyOnAbort ==
    [][/\ (AbortStep =>
             /\ resp'.wroteHeader
             /\ Contains(resp'.body, fail'.msg)
             /\ IsPrefix(resp.body, resp'.body))
       /\ (SuccessStep => resp' = resp)
       /\ (Running /\ resp' # resp /\ fail' = NoFail => nops' = nops + 1)]_vars

C23_Witness ==
    /\ Failed
    /\ fail.by = "handler"
    /\ fail.via = "direct"
    /\ Len(mwcalls) = 1
    /\ resp.wroteHeader
    /\ Contains(resp.body, "hello")
    /\ Contains(resp.body, fail.msg)

C23_WitnessCompleted ==
    /\ pc = "done"
    /\ fail = NoFail
    /\ Len(hcalls) = 1
    /\ resp.body = <<"hello">>

----
\* Properties of chains behind groups and combined tables.

\* How often h occurs in the sequence s.
Count(h, s) == Cardinality({i \in 1..Len(s) : s[i] = h})

\* How often h was passed to a Use call on any router.
Registrations(h) ==
    LET RECURSIVE Sum(_)
        Sum(n) == IF n = 0 THEN 0 ELSE Count(h, rts[n].own) + Sum(n - 1)
    IN Sum(Len(rts))

\* The request was resolved by the table of another router than the one it
\* was sent to.
Nested == Dispatching /\ cur.rt # req.rt

\* C24: a dispatch runs the chain of one router only, the one the route was
\* registered on, also for a route of a group or of a combined router: the
\* functions invoked are a prefix of that router's list, all of it once the
\* handler runs, and a function passed to Use once is invoked at most once.
C24_OneChainPerDispatch ==
    Dispatching =>
        /\ IsPrefix(mwcalls, rts[cur.rt].middlewares)
        /\ (hcalls # <<>> => mwcalls = rts[cur.rt].middlewares)
        /\ \A h \in MW : Registrations(h) = 1 => Count(h, mwcalls) <= 1

C24_Witness ==
    /\ Nested
    /\ pc = "done"
    /\ rts[cur.rt].parent = req.rt
    /\ rts[req.rt].middlewares = <<"m1">>
    /\ rts[cur.rt].middlewares = <<"m1", "m2">>
    /\ Registrations("m1") = 1
    /\ mwcalls = <<"m1", "m2">>
    /\ hcalls = <<RouteOf(cur)>>

C24_WitnessCombine ==
    /\ Nested
    /\ pc = "done"
    /\ rts[cur.rt].parent = 0
    /\ rts[req.rt].middlewares = <<"m1">>
    /\ rts[cur.rt].middlewares = <<"m2">>
    /\ mwcalls = <<"m2">>
    /\ hcalls = <<RouteOf(cur)>>

----
\* Properties of concurrent dispatches.

\* The dispatch q has entered its handler, which has not called the context yet.
Untouched(q) == q.pc = "handler" /\ q.nops = 0 /\ q.mwcalls = <<>>

\* The context and the response a dispatch starts with.
FreshFor(q) ==
    /\ q.ctx = NewCtx(rts[q.cur.rt].validator)
    /\ q.ctx.status = StatusOK
    /\ q.ctx.locals = <<>>
    /\ q.resp = NewRecorder

\* C25: every dispatch starts with a context of its own with status 200 and no
\* locals, and whatever the interleaving of two dispatches on one router, a
\* step of one leaves the context and the response of the other as they were:
\* a dispatch that has not called its context still has status 200, no locals
\* and an empty response, whatever the other one has set or written.
C25_ContextsIsolated ==
    [][/\ (pc = "idle" /\ pc' = "handler" /\ parked' = parked => FreshFor(InFlight'))
       /\ (parked' # parked => parked' = InFlight /\ InFlight' = parked)
       /\ (Untouched(InFlight') => FreshFor(InFlight'))
       /\ (Untouched(parked') => FreshFor(parked'))]_vars

C25_Witness ==
    /\ Untouched(InFlight)
    /\ FreshFor(InFlight)
    /\ parked.pc = "handler"
    /\ parked.nops = 2
    /\ parked.ctx.status = StatusForbidden
    /\ parked.resp.code = StatusForbidden
    /\ parked.resp.body = <<"hello">>

----
\* Properties of the status line.

C27_ErrorAfterWrite ==
    [][AbortStep /\ resp.wroteHeader =>
          /\ resp'.code = resp.code
          /\ resp'.body = resp.body \o <<fail'.msg, "\n">>
          /\ (resp.code # StatusInternalServerError =>
                  resp'.code # StatusInternalServerError)]_vars

C27_Witness ==
    /\ Failed
    /\ fail.by = "handler"
    /\ fail.via = "direct"
    /\ fail.wrote
    /\ resp.code = StatusOK
    /\ resp.sent["Content-Type"] = "application/json"
    /\ Len(resp.body) = 3
    /\ resp.body[2] = fail.msg

----
\* Properties of Use.

\* The step is a Use call on router r.
UseStep(r) == r \in DOMAIN rts' /\ rts'[r].own # rts[r].own

\* The functions a Use step passes to router r.
Used(r) == SubSeq(rts'[r].own, Len(rts[r].own) + 1, Len(rts'[r].own))

\* C28: a Use on a router that already has a route extends the list the route's
\* dispatches range over: the handler of a route is invoked only after every
\* function passed to Use on its router so far has run, in order, although the
\* route was registered first; the list of a group created earlier stays.
C28_UseAppliesToEarlierRoutes ==
    [][/\ \A r \in Routers :
             UseStep(r) /\ rts[r].routes # {} =>
                /\ rts'[r].routes = rts[r].routes
                /\ rts'[r].middlewares = rts[r].middlewares \o Used(r)
                /\ Chain(r)' = Chain(r) \o Used(r)
                /\ \A g \in Routers : rts[g].parent = r => Chain(g)' = Chain(g)
       /\ (hcalls = <<>> /\ hcalls' # <<>> =>
             mwcalls' = rts[cur'.rt].inherited \o rts[cur'.rt].own)]_vars

C28_Witness ==
    /\ pc = "done"
    /\ cur.kind = "route"
    /\ rts[cur.rt].parent = 0
    /\ rts[cur.rt].own = <<"m1", "m2">>
    /\ mwcalls = <<"m1", "m2">>
    /\ hcalls = <<RouteOf(cur)>>
    /\ fail = NoFail

C28_WitnessGroup ==
    /\ pc = "done"
    /\ cur.kind = "route"
    /\ rts[cur.rt].parent # 0
    /\ rts[rts[cur.rt].parent].own = <<"m1">>
    /\ rts[cur.rt].inherited = <<>>
    /\ mwcalls = <<>>
    /\ hcalls = <<RouteOf(cur)>>

\* C29: a Use on a group changes the group's list only: its parent and its
\* siblings are left exactly as they were, so a dispatch of a route registered
\* on the parent or on a sibling invokes no function that was not given to that
\* router by its own Use calls or at its creation.
C29_GroupUseIsLocal ==
    [][/\ \A g \in Routers :
             UseStep(g) /\ rts[g].parent # 0 =>
                \A x \in Routers \ {g} : rts'[x] = rts[x]
       /\ (Dispatching' =>
             \A h \in MW :
                Count(h, rts'[cur'.rt].inherited \o rts'[cur'.rt].own) = 0 =>
                   Count(h, mwcalls') = 0)]_vars

C29_Witness ==
    /\ pc = "done"
    /\ cur.kind = "route"
    /\ rts[cur.rt].parent = 0
    /\ rts[cur.rt].middlewares = <<"m1">>
    /\ \E g \in Routers :
          /\ rts[g].parent = cur.rt
          /\ rts[g].inherited = <<"m1">>
          /\ rts[g].own = <<"m2">>
          /\ rts[g].middlewares = <<"m1", "m2">>
    /\ mwcalls = <<"m1">>
    /\ hcalls = <<RouteOf(cur)>>

C29_WitnessSibling ==
    /\ pc = "done"
    /\ cur.kind = "route"
    /\ rts[cur.rt].parent # 0
    /\ rts[cur.rt].middlewares = <<>>
    /\ \E g \in Routers \ {cur.rt} :
          /\ rts[g].parent = rts[cur.rt].parent
          /\ rts[g].own = <<"m1">>
    /\ mwcalls = <<>>
    /\ hcalls = <<RouteOf(cur)>>

----
\* Properties of Combine and middleware.

\* The step is a Combine call on router r.
CombineStep(r) ==
    /\ nsetup' = nsetup + 1
    /\ \/ \E mt \in rts'[r].mounts \ rts[r].mounts : ~mt.strip
       \/ ~crashed /\ panicked' = "Combine"

\* The dispatch runs a route of a router made by New that the request reached
\* through the table of another router.
Combined(q, t, routers) == t.kind = "route" /\ t.rt # q.rt /\ routers[t.rt].parent = 0

\* C30: a request that a combined router's table serves runs that router's
\* functions only, all of them before its handler and none of the receiver's;
\* a Combine call changes the receiver's table and nothing else: no middleware
\* list and no table of another router.
C30_CombineKeepsChains ==
    [][/\ \A r \in Routers :
             CombineStep(r) =>
                /\ \A x \in Routers : rts'[x].middlewares = rts[x].middlewares
                /\ \A x \in Routers \ {r} : rts'[x] = rts[x]
                /\ rts'[r].routes = rts[r].routes
       /\ (Dispatching' /\ Combined(req', cur', rts') =>
             /\ IsPrefix(mwcalls', rts'[cur'.rt].own)
             /\ (hcalls' # <<>> => mwcalls' = rts'[cur'.rt].own))]_vars

C30_Witness ==
    /\ pc = "done"
    /\ Dispatching
    /\ Combined(req, cur, rts)
    /\ rts[req.rt].middlewares = <<"m1">>
    /\ rts[cur.rt].middlewares = <<"m2">>
    /\ rts[cur.rt].own = <<"m2">>
    /\ mwcalls = <<"m2">>
    /\ hcalls = <<RouteOf(cur)>>
    /\ fail = NoFail

----
\* Properties of the routers during dispatch.

\* The step belongs to a request: it changes something of a dispatch in flight.
DispatchStep == InFlight' # InFlight \/ parked' # parked

\* C31: no step of a dispatch, successful or failing, changes a router: the
\* middleware list and the pattern table of every router are what the
\* registration calls left.
C31_DispatchLeavesRouters ==
    [][DispatchStep =>
          /\ rts' = rts
          /\ \A r \in Routers :
                /\ rts'[r].middlewares = rts[r].middlewares
                /\ rts'[r].routes = rts[r].routes
                /\ rts'[r].mounts = rts[r].mounts]_vars

C31_Witness ==
    /\ Failed
    /\ fail.by = "mw"
    /\ cur.rt # req.rt
    /\ rts[cur.rt].middlewares = <<"m1", "m2">>
    /\ rts[cur.rt].routes # {}
    /\ rts[req.rt].mounts # {}
    /\ mwcalls = <<"m1", "m2">>

----
\* Properties of the context along the chain.

\* C32: the functions of one dispatch work on one context: a return of nil hands
\* context and response on as they are, Status and Locals change what they name
\* and nothing else, a Locals read gives the value stored last for its key by
\* whichever function stored it, and a Write or JSON on a response not written
\* yet puts the stored status on it.
C32_OneContextPerDispatch ==
    [][/\ (MiddlewareReturnsNil => ctx' = ctx /\ resp' = resp)
       /\ (last'.op = "Status" /\ nops' = nops + 1 =>
             /\ ctx'.status = last'.arg[1]
             /\ ctx'.locals = ctx.locals)
       /\ (LocalsStep =>
             /\ ctx'.status = ctx.status
             /\ IF last'.arg[2] = <<>>
                THEN last'.data = LatestFor(ctx.locals, last'.arg[1]) /\ ctx' = ctx
                ELSE LatestFor(ctx'.locals, last'.arg[1]) = last'.arg[2][1])
       /\ (last'.op \in {"Write", "JSON"} /\ nops' = nops + 1 =>
             /\ ctx' = ctx
             /\ (~resp.wroteHeader => resp'.code = ctx.status))]_vars

C32_Witness ==
    /\ pc = "handler"
    /\ Len(mwcalls) = 2
    /\ nops = 2
    /\ last.op = "Locals"
    /\ last.arg[2] = <<>>
    /\ last.data = <<"string", "v1">>
    /\ ctx.status = StatusForbidden
    /\ resp.code = StatusForbidden
    /\ resp.body = <<"hello">>

----
\* Properties of repeated decoding.

\* The step is a call of Decode or of Validate.
DecodingStep == last'.op \in {"Decode", "Validate"} /\ nops' = nops + 1

\* The error of a Decode that finds the body at its end.
DrainedError(method) ==
    IF method \in MutatingMethods THEN errEmptyBody ELSE errInvalidBody

\* C33: a Decode or Validate of a body holding one JSON value leaves the body at
\* its end, and a Decode or Validate that follows it on the same context, in the
\* same function or in a later one, fails with EmptyBody under POST, PUT, PATCH
\* and DELETE and with InvalidBody under the other methods, with status 400.
C33_DecodeNotRepeatable ==
    [][DecodingStep =>
          /\ (req.body \in {"valid", "mismatch"} => req'.body = "empty")
          /\ (req.body = "empty" => req'.body = "empty")
          /\ (last.op \in {"Decode", "Validate"} /\ last.body \in {"valid", "mismatch"} =>
                /\ req.body = "empty"
                /\ last'.ret = DrainedError(req.method)
                /\ ctx'.status = StatusBadRequest)
          /\ (req.body = "empty" =>
                /\ last'.ret = DrainedError(req.method)
                /\ ctx'.status = StatusBadRequest)]_vars

C33_Witness ==
    /\ last.op = "Validate"
    /\ nops = 1
    /\ pc = "handler"
    /\ mwcalls # <<>>
    /\ req.method = "POST"
    /\ last.body = "empty"
    /\ last.ret = errEmptyBody
    /\ ctx.status = StatusBadRequest
    /\ ctx.validator

C33_WitnessSameFunction ==
    /\ last.op = "Decode"
    /\ nops = 2
    /\ req.method = "GET"
    /\ last.body = "empty"
    /\ last.ret = errInvalidBody
    /\ ctx.status = StatusBadRequest

----
\* Properties of groups of groups.

\* The routes of groups of groups of r: the mount of the outer group on r, the
\* mount of the inner group on the outer one, and the route's key.
DeepRoutes(r) ==
    {[m1 |-> m1, m2 |-> m2, key |-> k] :
        m1 \in {x \in rts[r].mounts : x.strip},
        m2 \in UNION {{x \in rts[y.to].mounts : x.strip} : y \in rts[r].mounts},
        k \in {"GET"} \X RoutePaths}
      \cap UNION {UNION {{[m1 |-> m1, m2 |-> m2, key |-> k] : k \in rts[m2.to].routes} :
                            m2 \in rts[m1.to].mounts} : m1 \in rts[r].mounts}

DeepTarget(d) == [rt |-> d.m2.to, method |-> d.key[1], path |-> d.key[2]]

DeepPath(d) == d.m1.prefix \o d.m2.prefix \o d.key[2]

\* The list the claim names for the inner group: the root's functions when the
\* outer group was created, the outer group's own when the inner one was
\* created, then the inner group's own.
DeepChain(d) ==
    LET g1 == d.m1.to
        g2 == d.m2.to
        k == Len(rts[g2].inherited) - Len(rts[g1].inherited)
    IN rts[g1].inherited \o SubSeq(rts[g1].own, 1, k) \o rts[g2].own

\* The request is the one for the route d and gets its handler after the chain.
DeepServed(d) ==
    /\ cur = [kind |-> "route", rt |-> d.m2.to, method |-> d.key[1], path |-> d.key[2]]
    /\ IsPrefix(mwcalls, DeepChain(d))
    /\ (hcalls # <<>> => mwcalls = DeepChain(d) /\ hcalls = <<DeepTarget(d)>>)
    /\ (pc = "done" /\ fail.by = "none" => hcalls = <<DeepTarget(d)>>)

\* C34 as stated: a request M P1+P2+p sent to r gets the handler of the route
\* (M, p) of g2 := r.Group(P1).Group(P2), after r's functions as of g1's creation,
\* g1's own as of g2's creation and g2's own, in order, each once.
C34_DeepServed ==
    Served =>
        \A d \in DeepRoutes(req.rt) :
            req.method = d.key[1] /\ req.path = DeepPath(d) => DeepServed(d)

\* C34 amended: the same, unless the table of r or of g1 holds a more specific
\* pattern for the request (a route matching it, or a group under a longer
\* prefix).
C34_DeepServedUnlessShadowed ==
    Served =>
        \A d \in DeepRoutes(req.rt) :
            (/\ req.method = d.key[1]
             /\ req.path = DeepPath(d)
             /\ ~Shadowed(req.rt, d.m1, req.method, req.path)
             /\ ~Shadowed(d.m1.to, d.m2, req.method, d.m2.prefix \o d.key[2]))
                => DeepServed(d)

C34_Witness ==
    /\ pc = "done"
    /\ fail.by = "none"
    /\ req.path = <<"a", "a", "b">>
    /\ \E d \in DeepRoutes(req.rt) :
          /\ DeepPath(d) = req.path
          /\ hcalls = <<DeepTarget(d)>>
          /\ rts[d.m1.to].inherited = <<"m1">>
          /\ rts[d.m1.to].own = <<"m2">>
          /\ rts[d.m2.to].inherited = <<"m1", "m2">>
          /\ rts[d.m2.to].own = <<"m1">>
    /\ mwcalls = <<"m1", "m2", "m1">>

----
\* Properties of termination.

\* Number of invocations made for the request in flight.
Invocations == Len(mwcalls) + Len(hcalls)

\* The dispatch is over: every function returned nil and the handler ran
\* (Completed), or one of them returned an error (Aborted).
Completed == pc = "done" /\ fail.by = "none" /\ hcalls = <<RouteOf(cur)>>

Aborted == pc = "done" /\ fail.by \in {"mw", "handler"}

\* C35: provided every invocation returns, a dispatch ends, Completed or
\* Aborted; with n middleware in the list it invokes at most n of them, each
\* position of the list at most once and in order, and the handler at most
\* once; a step never invokes more than one function and a function that
\* returned is not invoked again.
C35_DispatchTerminates ==
    /\ [](Dispatching =>
            /\ Len(mwcalls) <= Len(Chain(cur.rt))
            /\ Len(mwcalls) = idx
            /\ mwcalls = SubSeq(Chain(cur.rt), 1, idx)
            /\ Len(hcalls) <= 1
            /\ (pc = "done" => Completed \/ Aborted))
    /\ [][Running => /\ Invocations' \in {Invocations, Invocations + 1}
                     /\ IsPrefix(mwcalls, mwcalls')
                     /\ IsPrefix(hcalls, hcalls')
                     /\ (fail' # NoFail => Invocations' = Invocations /\ pc' = "done")]_vars
    /\ (Running ~> pc = "done")

C35_Witness ==
    /\ Completed
    /\ Len(Chain(cur.rt)) = 2
    /\ mwcalls = Chain(cur.rt)
    /\ Invocations = 3

C35_WitnessAborted ==
    /\ Aborted
    /\ fail.by = "mw"
    /\ Len(Chain(cur.rt)) = 2
    /\ Invocations = 1

====
